---------------------------- MODULE Spec2Model ----------------------------
(***************************************************************************)
(* Model of the market dashboard: the indicator engine of                  *)
(* RealTimeStats.tsx (calculateRSI, calculateEMA, calculateMACD), the      *)
(* tick handlers of StockChart.tsx / App.tsx that own the chart viewport,  *)
(* the stats panels with the requests they send on every refresh, and      *)
(* PredictionBadge with its 5-minute interval.                             *)
(*                                                                         *)
(* Every price, range bound and indicator value of the program is a        *)
(* JavaScript number, i.e. an IEEE-754 binary64.  The first part of the    *)
(* module is that arithmetic: 53-bit significand, round to nearest, ties   *)
(* to even.  TLC's integers have 32 bits, so a significand is kept as two  *)
(* words, hi (25 bits) and lo (28 bits), and products go through 14-bit    *)
(* limbs.  NaN and the infinities are values (a division by zero makes    *)
(* them); subnormals, overflow and the sign of zero are outside the model: *)
(* the inputs are bounded far away from the exponent limits.               *)
(***************************************************************************)
EXTENDS Integers, Sequences, FiniteSets, TLC

(* ------------------- binary64 (the JavaScript number) ------------------ *)

\* A finite number is s * (hi * 2^28 + lo) * 2^e with s in {1, -1} and
\* 2^24 <= hi < 2^25, 0 <= lo < 2^28; zero is FZero.  NaN has s = 0 and an
\* infinity has hi = 0 and e = 1.
Limb == 2 ^ 14
Word == 2 ^ 28

FZero == [s |-> 1, hi |-> 0, lo |-> 0, e |-> 0]
NaN == [s |-> 0, hi |-> 0, lo |-> 0, e |-> 0]
Inf(s) == [s |-> s, hi |-> 0, lo |-> 0, e |-> 1]

IsNaN(a) == a.s = 0
IsInf(a) == a.s # 0 /\ a.hi = 0 /\ a.e = 1
IsZero(a) == a.s # 0 /\ a.hi = 0 /\ a.e = 0
IsFinite(a) == a.s # 0 /\ (a.hi # 0 \/ a.e = 0)

\* Number of bits of 0 <= n < 2^28.
BitLen4(n) == IF n >= 8 THEN 4 ELSE IF n >= 4 THEN 3 ELSE IF n >= 2 THEN 2 ELSE n
BitLen7(n) == IF n >= 16 THEN 4 + BitLen4(n \div 16) ELSE BitLen4(n)
BitLen14(n) == IF n >= 128 THEN 7 + BitLen7(n \div 128) ELSE BitLen7(n)
BitLen28(n) == IF n >= Limb THEN 14 + BitLen14(n \div Limb) ELSE BitLen14(n)

\* L with the sticky bit or-ed into its lowest bit.
Sticky(L, lost) == IF lost /\ (L % 2) = 0 THEN L + 1 ELSE L

\* The extended significand <<H, L>> = H * 2^28 + L has 56 bits: the 53 of
\* the result and guard, round and sticky below.  Its value is s * ext * 2^e.
RoundExt(s, H, L, e) ==
  LET g  == L % 8
      hi == H \div 8
      lo == ((H % 8) * (2 ^ 25)) + (L \div 8)
      up == g > 4 \/ (g = 4 /\ (lo % 2) = 1)
  IN  IF ~up THEN [s |-> s, hi |-> hi, lo |-> lo, e |-> e + 3]
      ELSE IF lo + 1 < Word THEN [s |-> s, hi |-> hi, lo |-> lo + 1, e |-> e + 3]
      ELSE IF hi + 1 < 2 ^ 25 THEN [s |-> s, hi |-> hi + 1, lo |-> 0, e |-> e + 3]
      ELSE [s |-> s, hi |-> 2 ^ 24, lo |-> 0, e |-> e + 4]

\* The same for any 0 <= H < 2^29: the significand is first brought to 56
\* bits (to the right with a sticky bit, or to the left).
NormExt(s, H, L, e) ==
  IF H >= Word
    THEN RoundExt(s, H \div 2, Sticky(((H % 2) * (2 ^ 27)) + (L \div 2), (L % 2) = 1), e + 1)
  ELSE IF H >= 2 ^ 27 THEN RoundExt(s, H, L, e)
  ELSE IF H = 0 /\ L = 0 THEN FZero
  ELSE LET k == 56 - (IF H > 0 THEN 28 + BitLen28(H) ELSE BitLen28(L))
       IN  IF k < 28
             THEN RoundExt(s, (H * (2 ^ k)) + (L \div (2 ^ (28 - k))),
                           (L % (2 ^ (28 - k))) * (2 ^ k), e - k)
             ELSE RoundExt(s, L * (2 ^ (k - 28)), 0, e - k)

\* The extended significand of a: its 53 bits and three zeros.
ExtOf(a) == <<(a.hi * 8) + (a.lo \div (2 ^ 25)), (a.lo % (2 ^ 25)) * 8>>

\* <<H, L>> shifted right by d bits, the bits lost kept as a sticky bit.
ShrSticky(x, d) ==
  IF d = 0 THEN x
  ELSE IF d < 28
    THEN <<x[1] \div (2 ^ d),
           Sticky((x[2] \div (2 ^ d)) + ((x[1] % (2 ^ d)) * (2 ^ (28 - d))), (x[2] % (2 ^ d)) # 0)>>
  ELSE IF d < 56
    THEN <<0, Sticky(x[1] \div (2 ^ (d - 28)), (x[1] % (2 ^ (d - 28))) # 0 \/ x[2] # 0)>>
  ELSE <<0, 1>>

\* The number of an integer of magnitude below 2^28.
FromInt(n) ==
  IF n = 0 THEN FZero
  ELSE IF n < 0 THEN NormExt(-1, 0, -n, 0) ELSE NormExt(1, 0, n, 0)

FNeg(a) == IF IsNaN(a) \/ IsZero(a) THEN a ELSE [a EXCEPT !.s = -a.s]

\* Extended significands compared.
ExtGt(x, y) == x[1] > y[1] \/ (x[1] = y[1] /\ x[2] > y[2])
ExtGe(x, y) == x[1] > y[1] \/ (x[1] = y[1] /\ x[2] >= y[2])

\* x - y for x >= y, word by word with the borrow.
ExtSub(x, y) ==
  <<x[1] - y[1] - (IF x[2] >= y[2] THEN 0 ELSE 1),
    (x[2] - y[2]) + (IF x[2] >= y[2] THEN 0 ELSE Word)>>

\* x + y, word by word with the carry.
FAddExt(s, x, y, e) ==
  NormExt(s, x[1] + y[1] + ((x[2] + y[2]) \div Word), (x[2] + y[2]) % Word, e)

\* x - y for x >= y.
FSubExt(s, d, e) == NormExt(s, d[1], d[2], e)

\* The significands x of a and y of b, aligned to the exponent e, added
\* with the signs sa and sb.
FAddAligned(sa, sb, x, y, e) ==
  IF sa = sb THEN FAddExt(sa, x, y, e)
  ELSE IF x = y THEN FZero
  ELSE FSubExt(IF ExtGt(x, y) THEN sa ELSE sb,
               ExtSub(IF ExtGt(x, y) THEN x ELSE y, IF ExtGt(x, y) THEN y ELSE x), e)

\* a + b for a.e >= b.e: b is shifted to the exponent of a.
FAddOrdered(a, b) ==
  FAddAligned(a.s, b.s, ExtOf(a), ShrSticky(ExtOf(b), a.e - b.e), a.e - 3)

\* a + b: the operand of the smaller exponent is shifted to the other's.
FAdd(a, b) ==
  IF IsNaN(a) \/ IsNaN(b) THEN NaN
  ELSE IF IsInf(a) THEN (IF IsInf(b) /\ a.s # b.s THEN NaN ELSE a)
  ELSE IF IsInf(b) THEN b
  ELSE IF a.hi = 0 THEN b
  ELSE IF b.hi = 0 THEN a
  ELSE FAddOrdered(IF a.e >= b.e THEN a ELSE b, IF a.e >= b.e THEN b ELSE a)

FSub(a, b) == FAdd(a, FNeg(b))

\* a * b: the 106-bit product of the significands by columns of 14-bit
\* limbs, cut to 56 bits with a sticky bit.
FMulWords(s, e, a0, a1, a2, a3, b0, b1, b2, b3) ==
  LET t0 == a0 * b0
      t1 == (a0 * b1) + (a1 * b0) + (t0 \div Limb)
      t2 == (a0 * b2) + (a1 * b1) + (a2 * b0) + (t1 \div Limb)
      t3 == (a0 * b3) + (a1 * b2) + (a2 * b1) + (a3 * b0) + (t2 \div Limb)
      t4 == (a1 * b3) + (a2 * b2) + (a3 * b1) + (t3 \div Limb)
      t5 == (a2 * b3) + (a3 * b2) + (t4 \div Limb)
      W3 == (a3 * b3) + (t5 \div Limb)
      W2 == ((t5 % Limb) * Limb) + (t4 % Limb)
      W1 == ((t3 % Limb) * Limb) + (t2 % Limb)
      r  == IF W3 >= 2 ^ 21 THEN 22 ELSE 21
      p  == 2 ^ r
      q  == 2 ^ (28 - r)
  IN  RoundExt(s, (W2 \div p) + (W3 * q),
               Sticky((W1 \div p) + ((W2 % p) * q),
                      (W1 % p) # 0 \/ (t1 % Limb) # 0 \/ (t0 % Limb) # 0),
               e + 28 + r)

FMul(a, b) ==
  IF IsNaN(a) \/ IsNaN(b) THEN NaN
  ELSE IF IsInf(a) \/ IsInf(b)
    THEN (IF IsZero(a) \/ IsZero(b) THEN NaN ELSE Inf(a.s * b.s))
  ELSE IF a.hi = 0 \/ b.hi = 0 THEN FZero
  ELSE FMulWords(a.s * b.s, a.e + b.e,
                 a.lo % Limb, a.lo \div Limb, a.hi % Limb, a.hi \div Limb,
                 b.lo % Limb, b.lo \div Limb, b.hi % Limb, b.hi \div Limb)

\* One limb of quotient (Knuth's algorithm D): r < d are <<H, L>> of 56
\* bits at most, d of exactly 56.  The estimate q from the top limbs is at
\* most two too large; the result is <<q, the remainder r * 2^14 - q * d>>.
RECURSIVE DivFix(_, _, _, _, _)
DivFix(top, mid, low, d, q) ==
  LET t0 == (d[2] % Limb) * q
      t1 == ((d[2] \div Limb) * q) + (t0 \div Limb)
      t2 == ((d[1] % Limb) * q) + (t1 \div Limb)
      t3 == ((d[1] \div Limb) * q) + (t2 \div Limb)
      pl == ((t1 % Limb) * Limb) + (t0 % Limb)
      pm == ((t3 % Limb) * Limb) + (t2 % Limb)
      pt == t3 \div Limb
      bl == IF low < pl THEN 1 ELSE 0
      bm == IF mid - bl < pm THEN 1 ELSE 0
  IN  IF top - bm < pt
        THEN DivFix(top, mid, low, d, q - 1)
        ELSE <<q, <<(mid - bl) + (bm * Word) - pm, low + (bl * Word) - pl>> >>

DivLimb(r, d) ==
  LET top == r[1] \div Limb
      mid == ((r[1] % Limb) * Limb) + (r[2] \div Limb)
      low == (r[2] % Limb) * Limb
      est == ((top * Limb) + (mid \div Limb)) \div (d[1] \div Limb)
  IN  DivFix(top, mid, low, d, IF est >= Limb THEN Limb - 1 ELSE est)

\* n more limbs of quotient of r by d: <<the limbs, the last remainder>>.
RECURSIVE DivLimbs(_, _, _, _)
RECURSIVE DivNext(_, _, _, _)
DivLimbs(r, d, n, qs) ==
  IF n = 0 THEN <<qs, r>> ELSE DivNext(DivLimb(r, d), d, n, qs)
DivNext(step, d, n, qs) == DivLimbs(step[2], d, n - 1, Append(qs, step[1]))

\* The quotient bits rounded: a remainder left over is the sticky bit.
FDivRound(s, e, ge, q) ==
  NormExt(s, (IF ge THEN Word ELSE 0) + (q[1][1] * Limb) + q[1][2],
          Sticky((q[1][3] * Limb) + q[1][4], q[2] # <<0, 0>>), e - 56)

\* a / b for finite a, b # 0 with the significands n and d: the integer
\* bit and four limbs of quotient bits.
FDivExt(s, e, n, d) ==
  FDivRound(s, e, ExtGe(n, d),
            DivLimbs(IF ExtGe(n, d) THEN ExtSub(n, d) ELSE n, d, 4, <<>>))

\* a / b; a division by zero gives an infinity, or NaN for 0 / 0.
FDiv(a, b) ==
  IF IsNaN(a) \/ IsNaN(b) THEN NaN
  ELSE IF IsInf(a) THEN (IF IsInf(b) THEN NaN ELSE Inf(a.s * b.s))
  ELSE IF IsInf(b) THEN FZero
  ELSE IF IsZero(b) THEN (IF IsZero(a) THEN NaN ELSE Inf(a.s))
  ELSE IF IsZero(a) THEN FZero
  ELSE FDivExt(a.s * b.s, a.e - b.e, ExtOf(a), ExtOf(b))

\* -1, 0, 1 as |a| < |b|, |a| = |b|, |a| > |b| (neither is NaN).
FCmpMag(a, b) ==
  IF IsInf(a) \/ IsInf(b)
    THEN (IF IsInf(a) /\ IsInf(b) THEN 0 ELSE IF IsInf(a) THEN 1 ELSE -1)
  ELSE IF a.hi = 0 THEN (IF b.hi = 0 THEN 0 ELSE -1)
  ELSE IF b.hi = 0 THEN 1
  ELSE IF a.e # b.e THEN (IF a.e < b.e THEN -1 ELSE 1)
  ELSE IF a.hi # b.hi THEN (IF a.hi < b.hi THEN -1 ELSE 1)
  ELSE IF a.lo # b.lo THEN (IF a.lo < b.lo THEN -1 ELSE 1)
  ELSE 0

FCmp(a, b) ==
  IF a.s # b.s THEN (IF a.s < b.s THEN -1 ELSE 1)
  ELSE a.s * FCmpMag(a, b)

\* The comparisons of the language: each is false when an operand is NaN.
FOrd(a, b) == ~IsNaN(a) /\ ~IsNaN(b)
FLt(a, b) == FOrd(a, b) /\ FCmp(a, b) < 0
FGt(a, b) == FOrd(a, b) /\ FCmp(a, b) > 0
FGe(a, b) == FOrd(a, b) /\ FCmp(a, b) >= 0
FEq(a, b) == FOrd(a, b) /\ FCmp(a, b) = 0

\* The number a decimal literal n/d denotes (d a power of ten): the literal
\* is read correctly rounded, and so is the quotient of two exact integers.
Dec(n, d) == FDiv(FromInt(n), FromInt(d))

F0 == FZero
F1 == FromInt(1)
F2 == FromInt(2)
F100 == FromInt(100)

\* number | null: the empty sequence is null, <<x>> the number x.
Null == <<>>
Num(x) == <<x>>
Val(r) == r[1]

\* closes[i] of the program, whose arrays start at index 0.
At(a, i) == a[i + 1]

(* ------------------- indicator engine (RealTimeStats.tsx) -------------- *)

\* The guard of calculateRSI one close too strict.
RSITooShortOffByOne(closes, period) == Len(closes) <= period + 1

\* if (closes.length < period + 1) return null;
RSITooShort(closes, period) == Len(closes) < period + 1

\* The loop of calculateRSI run over the whole history.
RSIFirstWhole(closes, period) == 1

\* for (let i = closes.length - period; ...
RSIFirst(closes, period) == Len(closes) - period

\* The turn of the loop with the falls added with their sign.
RSIStepSigned(closes, st) ==
  LET diff == FSub(At(closes, st.i), At(closes, st.i - 1))
  IN  IF FGt(diff, F0)
        THEN [i |-> st.i + 1, gains |-> FAdd(st.gains, diff), losses |-> st.losses]
        ELSE [i |-> st.i + 1, gains |-> st.gains, losses |-> FAdd(st.losses, diff)]

\* One turn of the loop; st holds the loop's variables i, gains, losses.
RSIStep(closes, st) ==
  LET diff == FSub(At(closes, st.i), At(closes, st.i - 1))
  IN  IF FGt(diff, F0)
        THEN [i |-> st.i + 1, gains |-> FAdd(st.gains, diff), losses |-> st.losses]
        ELSE [i |-> st.i + 1, gains |-> st.gains, losses |-> FSub(st.losses, diff)]

RECURSIVE RSILoop(_, _)
RSILoop(closes, st) ==
  IF st.i < Len(closes) THEN RSILoop(closes, RSIStep(closes, st)) ELSE st

RSISums(closes, period) ==
  RSILoop(closes, [i |-> RSIFirst(closes, period), gains |-> F0, losses |-> F0])

\* The tail of calculateRSI without the test of avgLoss.
RSIOfUnguarded(avgGain, avgLoss) ==
  FSub(F100, FDiv(F100, FAdd(F1, FDiv(avgGain, avgLoss))))

\* The tail of calculateRSI, from the two averages.
RSIOf(avgGain, avgLoss) ==
  IF FEq(avgLoss, F0) THEN F100
  ELSE FSub(F100, FDiv(F100, FAdd(F1, FDiv(avgGain, avgLoss))))

calculateRSI(closes, period) ==
  IF RSITooShort(closes, period) THEN Null
  ELSE LET sums == RSISums(closes, period)
       IN  Num(RSIOf(FDiv(sums.gains, FromInt(period)),
                     FDiv(sums.losses, FromInt(period))))

\* if (values.length < period) return null;
EMATooShort(values, period) == Len(values) < period

\* const k = 2 / (period + 1);
EMAK(period) == FDiv(F2, FromInt(period + 1))

\* let ema = values[0];
EMASeed(values, period) == At(values, 0)

\* The fold started after the first period values.
EMAFirstAtPeriod(values, period) == period

\* for (let i = 1; ...
EMAFirst(values, period) == 1

\* The step weighting the old value by k.
EMAStepNoComplement(v, k, ema) == FAdd(FMul(v, k), FMul(ema, k))

\* ema = values[i] * k + ema * (1 - k);
EMAStep(v, k, ema) == FAdd(FMul(v, k), FMul(ema, FSub(F1, k)))

\* st holds the loop's variables i and ema.
RECURSIVE EMALoop(_, _, _)
EMALoop(values, k, st) ==
  IF st.i < Len(values)
    THEN EMALoop(values, k,
                 [i |-> st.i + 1, ema |-> EMAStep(At(values, st.i), k, st.ema)])
    ELSE st.ema

calculateEMA(values, period) ==
  IF EMATooShort(values, period) THEN Null
  ELSE Num(EMALoop(values, EMAK(period),
                   [i |-> EMAFirst(values, period), ema |-> EMASeed(values, period)]))

\* calculateEMA(closes, 12), calculateEMA(closes, 26); period = 14
FastPeriod == 12
SlowPeriod == 26
RSIPeriod == 14

MACDOf(fast, slow) ==
  IF fast = Null \/ slow = Null THEN Null ELSE Num(FSub(Val(fast), Val(slow)))

calculateMACD(closes) ==
  MACDOf(calculateEMA(closes, FastPeriod), calculateEMA(closes, SlowPeriod))

(* ------------------------------ state --------------------------------- *)

VARIABLES
  closes,              \* the closes a call of the indicator engine is given
  period,              \* the period it is given
  out,                 \* the function called and what it returned
  variant,             \* which App of the sources is mounted
  feed,                \* closes the tick server has still to send
  live,                \* the chart effect has not been cleaned up for good
  committed,           \* the state the last commit and its effects ran with
  buffer,              \* buffer.current: the close of every tick handled
  hasSetInitialRange,  \* hasSetInitialRange.current
  range,               \* visible range of the chart's right price scale
  color,               \* colour of the line series
  transition,          \* the viewport branch the last handled tick took
  prevClose,           \* App state prevClose
  prevCloseRef,        \* the prevClose the message handler reads
  refreshCounter,      \* App state refreshCounter
  pending,             \* stats requests sent and not yet answered, by refreshTrigger
  hung,                \* the requests among them that never complete
  last,                \* the latest run of the response handler
  newest,              \* the latest request whose stats have been shown
  stats,               \* stats held by the fundamentals panel
  ticks,               \* App state ticks, the prop of RealtimeStatsPanel
  rsi,                 \* RealtimeStatsPanel state rsi
  macd,                \* RealtimeStatsPanel state macd
  prediction,          \* PredictionBadge state prediction
  interval,            \* when the badge's interval timer fires next, if it is set
  clock                \* minutes since the badge was mounted

indVars == <<closes, period, out>>
chartVars == <<buffer, hasSetInitialRange, range, color, transition>>
reqVars == <<pending, hung, last, newest>>
appVars == <<prevClose, prevCloseRef, refreshCounter, stats, reqVars>>
panelVars == <<ticks, rsi, macd>>
badgeVars == <<prediction, interval, clock>>
dashVars == <<variant, feed, live, committed, chartVars, appVars, panelVars, badgeVars>>
vars == <<indVars, dashVars>>

(* --------------------------- the dashboard ----------------------------- *)

\* App.tsx holds several Apps. Three differ in what a tick does:
\* the App whose handler auto-scales the price range, the App with the
\* fundamentals panel whose chart effect is keyed on prevClose, and the App
\* that mounts StockChart with the two panels.
AutoScaleApp == "AutoScaleApp"
FundamentalsApp == "FundamentalsApp"
StockChartApp == "StockChartApp"
Variants == {AutoScaleApp, FundamentalsApp, StockChartApp}

\* PredictionBadge is mounted by none of them: it is modelled mounted on
\* its own.
BadgeOnly == "PredictionBadge"
Roots == Variants \cup {BadgeOnly}

UpColor == "#00AA76"
DownColor == "#D60A22"

RangePercent == Dec(2, 100)
\* A buffer wider than half the range.
BufferPercentWide == Dec(55, 100)

BufferPercent == Dec(15, 100)
\* The handler halving the range where it should enlarge it.
GrowFactorHalf == Dec(5, 10)

GrowFactor == Dec(15, 10)

RangeSize(r) == FSub(r.to, r.from)

\* firstPrice * 0.98 .. firstPrice * 1.02
InitialRange(firstPrice) ==
  [from |-> FMul(firstPrice, Dec(98, 100)), to |-> FMul(firstPrice, Dec(102, 100))]

\* firstPrice * (1 - rangePercent) .. firstPrice * (1 + rangePercent)
InitialRangePercent(firstPrice) ==
  [from |-> FMul(firstPrice, FSub(F1, RangePercent)),
   to |-> FMul(firstPrice, FAdd(F1, RangePercent))]

NearTop(currentPrice, r) ==
  FGt(currentPrice, FSub(r.to, FMul(RangeSize(r), BufferPercent)))
NearBottom(currentPrice, r) ==
  FLt(currentPrice, FAdd(r.from, FMul(RangeSize(r), BufferPercent)))

\* The handler enlarging the range whatever the price.
ShouldExpandAlways(currentPrice, r) == TRUE

ShouldExpand(currentPrice, r) == NearTop(currentPrice, r) \/ NearBottom(currentPrice, r)

\* The range of size rangeSize * 1.5 centred on the price.
Centred(currentPrice, newRangeSize) ==
  [from |-> FSub(currentPrice, FDiv(newRangeSize, F2)),
   to |-> FAdd(currentPrice, FDiv(newRangeSize, F2))]
Expanded(currentPrice, r) == Centred(currentPrice, FMul(RangeSize(r), GrowFactor))

\* The handler leaving the flag as it was.
FlagNeverSet == FALSE

\* hasSetInitialRange.current = true
FlagAfterInitialRange == TRUE

Viewport(r, flag, tr) == [range |-> r, flag |-> flag, transition |-> tr]

\* The viewport branch of the auto-scaling handler; the tick is already
\* in the buffer when it runs.
ViewportAutoScale(p) ==
  IF ~hasSetInitialRange /\ Len(buffer) + 1 = 1
    THEN Viewport(Num(InitialRangePercent(p)), FlagAfterInitialRange, "initial")
  ELSE IF hasSetInitialRange /\ range # Null /\ ShouldExpand(p, Val(range))
    THEN Viewport(Num(Expanded(p, Val(range))), hasSetInitialRange, "expand")
  ELSE Viewport(range, hasSetInitialRange, "steady")

\* The viewport branch of the two handlers that only set the first range.
ViewportInitialOnly(p) ==
  IF ~hasSetInitialRange
    THEN Viewport(Num(InitialRange(p)), FlagAfterInitialRange, "initial")
    ELSE Viewport(range, hasSetInitialRange, "steady")

\* What the viewport branch did to the chart and to the flag.
SetViewport(v) ==
  /\ range' = v.range
  /\ hasSetInitialRange' = v.flag
  /\ transition' = v.transition

\* The handler comparing with > where the code has >=.
SignalColorStrict(close, reference) ==
  IF reference # Null
    THEN IF FGt(close, Val(reference)) THEN UpColor ELSE DownColor
    ELSE color

\* The colour signal: the series keeps its colour while the reference is null.
SignalColor(close, reference) ==
  IF reference # Null
    THEN IF FGe(close, Val(reference)) THEN UpColor ELSE DownColor
    ELSE color

\* What a stats response carries: no stats field, or stats with or
\* without previousClose.
Responses ==
  {[stats |-> Null],
   [stats |-> Num([previousClose |-> Null])],
   [stats |-> Num([previousClose |-> Num(F100)])]}

\* Number(data.stats.previousClose): NaN when the field is missing.
PreviousCloseNaN(s) == IF s.previousClose # Null THEN Val(s.previousClose) ELSE NaN

\* Number(data.stats.previousClose ?? 0)
PreviousCloseOf(s) == IF s.previousClose # Null THEN Val(s.previousClose) ELSE F0

MaxFeedTail == 2
LongRun == 14
MaxLag == 2

\* tick.close is whatever number the message carries.
FeedPrices == {FNeg(F100), F0, Dec(985, 10), F100, Dec(1019, 10)}
FeedTails == UNION {[1..j -> FeedPrices] : j \in 0..MaxFeedTail}
LongFeed == [i \in 1..LongRun |-> F100]

\* What the tick server sends in a session: a few closes.
Feeds == FeedTails

\* The same closes after a long quiet run.
LongFeeds == {LongFeed \o t : t \in FeedTails}

Snapshot == [prevClose |-> prevClose, refreshCounter |-> refreshCounter, ticks |-> ticks]
Mounting == committed = Null
Settled == committed = Num(Snapshot)
Lag == IF Mounting THEN 0 ELSE refreshCounter - Val(committed).refreshCounter

IndIdle ==
  /\ closes = <<>>
  /\ period = RSIPeriod
  /\ out = [fn |-> "none", val |-> Null]

Init ==
  /\ IndIdle
  /\ variant \in Roots
  /\ feed \in IF variant = BadgeOnly THEN {<<>>} ELSE Feeds
  /\ live = TRUE
  /\ committed = Null
  /\ buffer = <<>>
  /\ hasSetInitialRange = FALSE
  /\ range = Null
  /\ color = DownColor
  /\ transition = "none"
  /\ prevClose = Null
  /\ prevCloseRef = Null
  /\ refreshCounter = 0
  /\ pending = {}
  /\ hung = {}
  /\ last = Null
  /\ newest = Null
  /\ stats = Null
  /\ ticks = <<>>
  /\ rsi = Null
  /\ macd = Null
  /\ prediction = Null
  /\ interval = Null
  /\ clock = 0

\* The chart effect: it runs on mount, and in the App keyed on prevClose
\* again whenever prevClose changed; its cleanup closed the old socket and
\* removed the old chart. The refs outlive it.
ChartEffectRuns ==
  Mounting \/ (variant = FundamentalsApp /\ Val(committed).prevClose # prevClose)
ChartEffect ==
  IF ChartEffectRuns
    THEN range' = Null /\ color' = DownColor
    ELSE UNCHANGED <<range, color>>

\* The handler reads prevClose through a ref synced after every render, or
\* from the closure of the effect that created it.
PrevCloseEffect ==
  prevCloseRef' = IF variant = AutoScaleApp THEN prevCloseRef ELSE prevClose

\* The stats panel's effect: one request on mount and on every change of
\* refreshTrigger.
FetchEffectRuns ==
  variant # AutoScaleApp /\ (Mounting \/ Val(committed).refreshCounter # refreshCounter)
FetchEffect ==
  pending' = IF FetchEffectRuns THEN pending \cup {refreshCounter} ELSE pending

\* RealtimeStatsPanel's effect, keyed on ticks.
StatsEffectRuns ==
  variant = StockChartApp /\ (Mounting \/ Val(committed).ticks # ticks)
\* ticks.map((t) => t.close)
TickCloses(ts) == [i \in 1..Len(ts) |-> ts[i].close]
StatsEffect ==
  IF StatsEffectRuns /\ Len(ticks) # 0
    THEN /\ rsi' = calculateRSI(TickCloses(ticks), RSIPeriod)
         /\ macd' = calculateMACD(TickCloses(ticks))
    ELSE UNCHANGED <<rsi, macd>>

\* React commits a render and runs the effects whose dependencies changed.
Commit ==
  /\ variant \in Variants
  /\ live
  /\ ~Settled
  /\ committed' = Num(Snapshot)
  /\ ChartEffect
  /\ PrevCloseEffect
  /\ FetchEffect
  /\ StatsEffect
  /\ UNCHANGED <<indVars, badgeVars, variant, feed, live, buffer, hasSetInitialRange, transition,
                 prevClose, refreshCounter, stats, hung, last, newest, ticks>>

\* The cleanup leaving the socket open.
ReceivingAfterClose == ~Mounting /\ feed # <<>> /\ Lag < MaxLag

\* A message can be handled once the socket exists and until it is closed.
Receiving == live /\ ~Mounting /\ feed # <<>> /\ Lag < MaxLag

OnMessageAutoScale ==
  /\ variant = AutoScaleApp
  /\ Receiving
  /\ SetViewport(ViewportAutoScale(Head(feed)))
  /\ buffer' = Append(buffer, Head(feed))
  /\ feed' = Tail(feed)
  /\ UNCHANGED <<indVars, badgeVars, variant, live, committed, color, appVars, panelVars>>

OnMessageFundamentals ==
  /\ variant = FundamentalsApp
  /\ Receiving
  /\ SetViewport(ViewportInitialOnly(Head(feed)))
  /\ buffer' = Append(buffer, Head(feed))
  /\ color' = SignalColor(Head(feed), prevCloseRef)
  /\ refreshCounter' = refreshCounter + 1
  /\ feed' = Tail(feed)
  /\ UNCHANGED <<indVars, badgeVars, variant, live, committed, prevClose, prevCloseRef, reqVars,
                 stats, panelVars>>

\* StockChart takes no onNewTick prop and never calls one: ticks stays as
\* App created it.
OnMessageStockChart ==
  /\ variant = StockChartApp
  /\ Receiving
  /\ SetViewport(ViewportInitialOnly(Head(feed)))
  /\ buffer' = Append(buffer, Head(feed))
  /\ color' = SignalColor(Head(feed), prevCloseRef)
  /\ refreshCounter' = refreshCounter + 1
  /\ feed' = Tail(feed)
  /\ UNCHANGED <<indVars, badgeVars, variant, live, committed, prevClose, prevCloseRef, reqVars,
                 stats, panelVars>>

\* A state setter that still acts once its component is unmounted.
StillMountedAlways == TRUE

\* setStats, setPrevClose and setPrediction act on a mounted component only.
StillMounted == live

\* The handler dropping a response without stats silently.
LogsNothing(data) == FALSE

\* console.error("No stats field:", data)
Logs(data) == data.stats = Null

\* A handler that drops the response to a request older than the one shown.
HasStatsIfNewer(id, data) == data.stats # Null /\ (newest = Null \/ id > Val(newest))

\* if (data.stats)
HasStats(id, data) == data.stats # Null

\* What the response handler was run with and whether it logged.
\* The handler reads data.stats and calls setStats, onPrevClose or
\* console.error: none of them throws.
Throws(data) == FALSE

HandlerRun(id, data) ==
  Num([id |-> id, data |-> Num(data), logged |-> Logs(data), threw |-> Throws(data)])

Later(id) == IF newest = Null \/ id > Val(newest) THEN Num(id) ELSE newest

\* The stats request started for refreshTrigger id resolves with data;
\* setStats and setPrevClose do nothing once the App is unmounted.
Deliver(id, data) ==
  /\ pending' = pending \ {id}
  /\ last' = HandlerRun(id, data)
  /\ IF StillMounted /\ HasStats(id, data)
       THEN /\ stats' = data.stats
            /\ prevClose' = Num(PreviousCloseOf(Val(data.stats)))
            /\ newest' = Later(id)
       ELSE UNCHANGED <<stats, prevClose, newest>>

Response ==
  /\ variant \in Variants
  /\ \E id \in pending \ hung : \E data \in Responses : Deliver(id, data)
  /\ UNCHANGED <<indVars, badgeVars, variant, feed, live, committed, chartVars, prevCloseRef,
                 refreshCounter, hung, panelVars>>

\* The stats request is rejected: .catch(console.error) logs the error.
FetchFailed ==
  /\ variant \in Variants
  /\ \E id \in pending \ hung :
       /\ pending' = pending \ {id}
       /\ last' = Num([id |-> id, data |-> Null, logged |-> TRUE, threw |-> FALSE])
  /\ UNCHANGED <<indVars, badgeVars, variant, feed, live, committed, chartVars, prevClose,
                 prevCloseRef, refreshCounter, stats, hung, newest, panelVars>>

\* A fetch given a timeout: the request the server never answers is aborted.
HangAborted ==
  /\ \E id \in pending \ hung : hung' = hung \cup {id} /\ pending' = pending \ {id}
  /\ UNCHANGED <<indVars, badgeVars, variant, feed, live, committed, chartVars, prevClose,
                 prevCloseRef, refreshCounter, stats, last, newest, panelVars>>

\* fetch is given no signal and no timeout: a request the server never
\* answers stays outstanding for good.
Hang ==
  /\ \E id \in pending \ hung : hung' = hung \cup {id}
  /\ UNCHANGED <<indVars, badgeVars, variant, feed, live, committed, chartVars, prevClose,
                 prevCloseRef, refreshCounter, stats, pending, last, newest, panelVars>>

\* The App unmounts: the cleanup closes the socket and removes the chart.
Cleanup ==
  /\ variant \in Variants
  /\ live
  /\ ~Mounting
  /\ live' = FALSE
  /\ UNCHANGED <<indVars, badgeVars, variant, feed, committed, chartVars, appVars, panelVars>>

(* --------------------------- PredictionBadge --------------------------- *)

\* An interval of 60 * 1000 ms.
IntervalOneMinute == (60 * 1000) \div (60 * 1000)

\* setInterval(fetchPrediction, 5 * 60 * 1000), in minutes.
IntervalMinutes == (5 * 60 * 1000) \div (60 * 1000)

MaxMinutes == 11

\* What /predict answers: an error, or a prediction.
PredictionResponses ==
  {[error |-> Num("no model"), prediction |-> Null],
   [error |-> Null, prediction |-> Num("UP")],
   [error |-> Null, prediction |-> Num("DOWN")]}

\* fetchPrediction up to its first await: the request is on its way.
FetchPrediction == pending' = pending \cup {clock}

\* The badge's effect: fetchPrediction(), then setInterval.
BadgeMount ==
  /\ variant = BadgeOnly
  /\ live
  /\ Mounting
  /\ committed' = Num(Snapshot)
  /\ FetchPrediction
  /\ interval' = Num(clock + IntervalMinutes)
  /\ UNCHANGED <<indVars, variant, feed, live, chartVars, prevClose, prevCloseRef,
                 refreshCounter, stats, hung, last, newest, panelVars, prediction, clock>>

\* The interval timer fires: fetchPrediction again.
IntervalFires ==
  /\ variant = BadgeOnly
  /\ interval # Null
  /\ clock = Val(interval)
  /\ FetchPrediction
  /\ interval' = Num(clock + IntervalMinutes)
  /\ UNCHANGED <<indVars, variant, feed, live, committed, chartVars, prevClose, prevCloseRef,
                 refreshCounter, stats, hung, last, newest, panelVars, prediction, clock>>

\* A minute passes; a timer that is due fires first.
Minute ==
  /\ variant = BadgeOnly
  /\ ~Mounting
  /\ clock < MaxMinutes
  /\ interval # Null => clock < Val(interval)
  /\ clock' = clock + 1
  /\ UNCHANGED <<indVars, variant, feed, live, committed, chartVars, appVars, panelVars,
                 prediction, interval>>

\* if (!data.error)
Predicts(data) == data.error = Null

\* The rest of fetchPrediction when the request resolves with data;
\* setPrediction does nothing once the badge is unmounted.
PredictionResponse ==
  /\ variant = BadgeOnly
  /\ \E id \in pending \ hung : \E data \in PredictionResponses :
       /\ pending' = pending \ {id}
       /\ last' = Num([id |-> id, data |-> Num(data), logged |-> FALSE, threw |-> FALSE])
       /\ IF StillMounted /\ Predicts(data)
            THEN prediction' = Num(data) /\ newest' = Later(id)
            ELSE UNCHANGED <<prediction, newest>>
  /\ UNCHANGED <<indVars, variant, feed, live, committed, chartVars, prevClose, prevCloseRef,
                 refreshCounter, stats, hung, panelVars, interval, clock>>

\* The request or res.json() fails: the catch logs it.
PredictionFailed ==
  /\ variant = BadgeOnly
  /\ \E id \in pending \ hung :
       /\ pending' = pending \ {id}
       /\ last' = Num([id |-> id, data |-> Null, logged |-> TRUE, threw |-> FALSE])
  /\ UNCHANGED <<indVars, variant, feed, live, committed, chartVars, prevClose, prevCloseRef,
                 refreshCounter, stats, hung, newest, panelVars, badgeVars>>

\* The badge unmounts: clearInterval(interval).
BadgeUnmount ==
  /\ variant = BadgeOnly
  /\ live
  /\ ~Mounting
  /\ live' = FALSE
  /\ interval' = Null
  /\ UNCHANGED <<indVars, variant, feed, committed, chartVars, appVars, panelVars,
                 prediction, clock>>

Next ==
  \/ Commit
  \/ OnMessageAutoScale
  \/ OnMessageFundamentals
  \/ OnMessageStockChart
  \/ Response
  \/ FetchFailed
  \/ Hang
  \/ Cleanup
  \/ BadgeMount
  \/ IntervalFires
  \/ Minute
  \/ PredictionResponse
  \/ PredictionFailed
  \/ BadgeUnmount

Spec == Init /\ [][Next]_vars

(* ------------- the StockChart App over a long quiet session ------------ *)

\* The session of the App with the two panels in which the stats server
\* answers nothing.
InitLong ==
  /\ IndIdle
  /\ variant = StockChartApp
  /\ feed \in LongFeeds
  /\ live = TRUE
  /\ committed = Null
  /\ buffer = <<>>
  /\ hasSetInitialRange = FALSE
  /\ range = Null
  /\ color = DownColor
  /\ transition = "none"
  /\ prevClose = Null
  /\ prevCloseRef = Null
  /\ refreshCounter = 0
  /\ pending = {}
  /\ hung = {}
  /\ last = Null
  /\ newest = Null
  /\ stats = Null
  /\ ticks = <<>>
  /\ rsi = Null
  /\ macd = Null
  /\ prediction = Null
  /\ interval = Null
  /\ clock = 0

NextLong == Commit \/ OnMessageStockChart \/ Cleanup

SpecLong == InitLong /\ [][NextLong]_vars

(* ------------- the indicator engine applied to bounded inputs ---------- *)

\* The next binary64 above a positive x whose significand is not all ones.
NextUp(x) == [x EXCEPT !.lo = @ + 1]

P3 == Dec(31, 10)
P3up == NextUp(P3)
P100 == F100
P101 == Dec(1019, 10)
Prices == {P3, P3up, P100, P101}

MaxTail == 2
RunLens == {0, 11, 13, 24, 25}
Periods == {1, 2, FastPeriod, RSIPeriod, SlowPeriod}

Repeat(v, n) == [i \in 1..n |-> v]
Tails == UNION {[1..j -> Prices] : j \in 0..MaxTail}

\* A run of one price followed by any closes: the long inputs reach the
\* periods of the program, the tails vary the window.
InputCloses == {Repeat(v, n) \o t : v \in Prices, n \in RunLens, t \in Tails}

NotCalled == [fn |-> "none", val |-> Null]

\* No App is mounted while the engine is called on its own.
DashIdle ==
  /\ variant = StockChartApp
  /\ feed = <<>>
  /\ live = FALSE
  /\ committed = Null
  /\ buffer = <<>>
  /\ hasSetInitialRange = FALSE
  /\ range = Null
  /\ color = DownColor
  /\ transition = "none"
  /\ prevClose = Null
  /\ prevCloseRef = Null
  /\ refreshCounter = 0
  /\ pending = {}
  /\ hung = {}
  /\ last = Null
  /\ newest = Null
  /\ stats = Null
  /\ ticks = <<>>
  /\ rsi = Null
  /\ macd = Null
  /\ prediction = Null
  /\ interval = Null
  /\ clock = 0

InitInd ==
  /\ closes \in InputCloses
  /\ period \in Periods
  /\ out = NotCalled
  /\ DashIdle

CallRSI ==
  /\ out.fn = "none"
  /\ out' = [fn |-> "calculateRSI", val |-> calculateRSI(closes, period)]
  /\ UNCHANGED <<closes, period, dashVars>>

CallEMA ==
  /\ out.fn = "none"
  /\ out' = [fn |-> "calculateEMA", val |-> calculateEMA(closes, period)]
  /\ UNCHANGED <<closes, period, dashVars>>

CallMACD ==
  /\ out.fn = "none"
  /\ out' = [fn |-> "calculateMACD", val |-> calculateMACD(closes)]
  /\ UNCHANGED <<closes, period, dashVars>>

NextInd == CallRSI \/ CallEMA \/ CallMACD

SpecInd == InitInd /\ [][NextInd]_vars

(* -------- the auto-scaling handler fed with any JSON number ------------ *)

\* tick.close is whatever number the message carries: the sign and the
\* magnitude are the server's.
\* 2^60
Huge == FMul(FMul(FromInt(1048576), FromInt(1048576)), FromInt(1048576))
ScalePrices == {FNeg(F100), F0, Dec(985, 10), F100, Dec(1019, 10), Huge}

MaxScaleFeed == 3
ScaleFeeds == UNION {[1..j -> ScalePrices] : j \in 0..MaxScaleFeed}

InitAutoScale ==
  /\ IndIdle
  /\ variant = AutoScaleApp
  /\ feed \in ScaleFeeds
  /\ live = TRUE
  /\ committed = Null
  /\ buffer = <<>>
  /\ hasSetInitialRange = FALSE
  /\ range = Null
  /\ color = DownColor
  /\ transition = "none"
  /\ prevClose = Null
  /\ prevCloseRef = Null
  /\ refreshCounter = 0
  /\ pending = {}
  /\ hung = {}
  /\ last = Null
  /\ newest = Null
  /\ stats = Null
  /\ ticks = <<>>
  /\ rsi = Null
  /\ macd = Null
  /\ prediction = Null
  /\ interval = Null
  /\ clock = 0

NextAutoScale == Commit \/ OnMessageAutoScale \/ Cleanup

SpecAutoScale == InitAutoScale /\ [][NextAutoScale]_vars

(* ---------------- properties of the indicator engine ------------------- *)

Called(fn) == out.fn = fn
Returned(fn) == out.fn = fn /\ out.val # Null

\* The last n closes, oldest first.
WindowOf(seq, n) == SubSeq(seq, Len(seq) - n + 1, Len(seq))
RSIWindow == WindowOf(closes, period + 1)

HasGain(w) == \E i \in 1..(Len(w) - 1) : FGt(w[i + 1], w[i])
HasLoss(w) == \E i \in 1..(Len(w) - 1) : FLt(w[i + 1], w[i])
IsConstant(seq) == \A i \in 1..Len(seq) : seq[i] = seq[1]

\* Sums of the rises and of the falls of w, added oldest first.
RECURSIVE SumDiffs(_, _)
SumDiffs(w, st) ==
  IF st.i >= Len(w) THEN st
  ELSE LET d == FSub(w[st.i + 1], w[st.i])
       IN  SumDiffs(w, [i |-> st.i + 1,
                        up |-> IF FGt(d, F0) THEN FAdd(st.up, d) ELSE st.up,
                        down |-> IF FGt(d, F0) THEN st.down ELSE FAdd(st.down, FNeg(d))])
WindowSums == SumDiffs(RSIWindow, [i |-> 1, up |-> F0, down |-> F0])

\* ema := v * k + ema * (1 - k) over seq[from..], starting from ema.
RECURSIVE FoldEMA(_, _, _)
FoldEMA(seq, k, st) ==
  IF st.i > Len(seq) THEN st.ema
  ELSE FoldEMA(seq, k, [i |-> st.i + 1,
                        ema |-> FAdd(FMul(seq[st.i], k), FMul(st.ema, FSub(F1, k)))])
EMAFrom0(seq, n) == FoldEMA(seq, FDiv(F2, FromInt(n + 1)), [i |-> 2, ema |-> seq[1]])

\* a <= b
FLe(a, b) == FOrd(a, b) /\ FCmp(a, b) <= 0
Pow2(n) == [s |-> 1, hi |-> 2 ^ 24, lo |-> 0, e |-> n - 52]
FAbs(a) == IF IsNaN(a) THEN a ELSE [a EXCEPT !.s = 1]

\* C1: calculateRSI returns null exactly when it is given fewer than
\* period + 1 closes, calculateEMA exactly when fewer than period values,
\* calculateMACD exactly when fewer than 26 closes; every other call returns
\* a number.
C1_NullExactlyWhenShort ==
  /\ Called("calculateRSI") => (out.val = Null <=> Len(closes) < period + 1)
  /\ Called("calculateEMA") => (out.val = Null <=> Len(closes) < period)
  /\ Called("calculateMACD") => (out.val = Null <=> Len(closes) < 26)
  /\ out.val # Null => Len(out.val) = 1 /\ IsFinite(Val(out.val))

C1_Witness ==
  /\ Returned("calculateRSI")
  /\ Len(closes) = period + 1
  /\ period = 14

\* C2: calculateRSI reads only the last period + 1 closes: it returns what
\* it returns for that window alone, and when the window has a fall the
\* result is 100 - 100 / (1 + (gains / period) / (losses / period)) for the
\* sums of the rises and of the falls of the window.
C2_RSIOfTrailingWindow ==
  Returned("calculateRSI") =>
    /\ out.val = calculateRSI(RSIWindow, period)
    /\ FGt(WindowSums.down, F0) =>
         Val(out.val) =
           FSub(F100, FDiv(F100, FAdd(F1, FDiv(FDiv(WindowSums.up, FromInt(period)),
                                               FDiv(WindowSums.down, FromInt(period))))))

C2_Witness ==
  /\ Returned("calculateRSI")
  /\ Len(closes) > period + 1
  /\ FGt(WindowSums.down, F0)
  /\ FGt(WindowSums.up, F0)
  /\ calculateRSI(closes, period) # calculateRSI(WindowOf(closes, period + 2), period + 1)

\* C3: when no close of the trailing window is below the one before it,
\* calculateRSI returns exactly 100, and no division by zero reaches the
\* result.
C3_NoLossGives100 ==
  Returned("calculateRSI") /\ ~HasLoss(RSIWindow) => out.val = Num(F100)

C3_Witness ==
  /\ Returned("calculateRSI")
  /\ ~HasLoss(RSIWindow)
  /\ IsConstant(RSIWindow)
  /\ period = 14

\* C4 as stated: 0 <= RSI <= 100, and RSI is 0 only when the window has no
\* rise and at least one fall.
C4_ZeroOnlyWithoutGain ==
  Returned("calculateRSI") =>
    /\ FGe(Val(out.val), F0) /\ FLe(Val(out.val), F100)
    /\ Val(out.val) = F0 => ~HasGain(RSIWindow) /\ HasLoss(RSIWindow)

\* C4: 0 <= RSI <= 100. RSI is 0 whenever the window has no rise and at
\* least one fall, and RSI is 0 only when the window has a fall and its
\* rises sum to at most 2^-52 of its falls.
C4_RSIInRange ==
  Returned("calculateRSI") =>
    /\ FGe(Val(out.val), F0) /\ FLe(Val(out.val), F100)
    /\ ~HasGain(RSIWindow) /\ HasLoss(RSIWindow) => Val(out.val) = F0
    /\ Val(out.val) = F0 =>
         /\ HasLoss(RSIWindow)
         /\ FLe(FMul(WindowSums.up, Pow2(52)), WindowSums.down)

C4_Witness ==
  /\ Returned("calculateRSI")
  /\ Val(out.val) = F0
  /\ HasGain(RSIWindow)

\* C5: calculateEMA returns the fold that starts from values[0] and applies
\* ema := v * k + ema * (1 - k), k = 2 / (period + 1), to every later
\* value; calculateMACD returns EMA(closes, 12) - EMA(closes, 26).
C5_EMAIsFoldFromFirst ==
  /\ Returned("calculateEMA") => out.val = Num(EMAFrom0(closes, period))
  /\ Returned("calculateMACD") =>
       out.val = Num(FSub(EMAFrom0(closes, 12), EMAFrom0(closes, 26)))

C5_Witness ==
  /\ Returned("calculateMACD")
  /\ ~IsConstant(closes)
  /\ Val(out.val) # F0

\* C6 as stated: the EMA of a constant sequence of v is v, and the MACD of
\* constant closes is 0.
C6_ConstantExact ==
  /\ Returned("calculateEMA") /\ IsConstant(closes) => out.val = Num(closes[1])
  /\ Returned("calculateMACD") /\ IsConstant(closes) => out.val = Num(F0)

\* C6: the EMA of a constant sequence of v is v up to rounding,
\* |EMA - v| <= 2^-46 * |v|, and exactly v when period is 1; the MACD of
\* constant closes is 0 up to rounding, |MACD| <= 2^-45 * |v|.
C6_ConstantUpToRounding ==
  /\ Returned("calculateEMA") /\ IsConstant(closes) =>
       /\ FLe(FAbs(FSub(Val(out.val), closes[1])), FMul(Pow2(-46), FAbs(closes[1])))
       /\ period = 1 => out.val = Num(closes[1])
  /\ Returned("calculateMACD") /\ IsConstant(closes) =>
       FLe(FAbs(Val(out.val)), FMul(Pow2(-45), FAbs(closes[1])))

C6_Witness ==
  /\ Returned("calculateEMA")
  /\ IsConstant(closes)
  /\ out.val # Num(closes[1])

(* --------------------- properties of the dashboard --------------------- *)

\* A step in which the message handler took a tick, and the tick's close.
TickHandled == Len(buffer') = Len(buffer) + 1
NewClose == buffer'[Len(buffer')]

\* The band of a range that a price has to leave for the range to move.
BandLow(r) == FAdd(r.from, FMul(FSub(r.to, r.from), Dec(15, 100)))
BandHigh(r) == FSub(r.to, FMul(FSub(r.to, r.from), Dec(15, 100)))

\* C7: once the ticks delivered so far are rendered, the rsi and macd held
\* by RealtimeStatsPanel are calculateRSI and calculateMACD of the closes
\* of all ticks handled, in arrival order.
C7_IndicatorsFollowTicks ==
  variant = StockChartApp /\ live /\ Settled =>
    /\ rsi = calculateRSI(buffer, 14)
    /\ macd = calculateMACD(buffer)

\* C8: the first tick handled while hasSetInitialRange is false, with
\* close p, sets the range to {p * 0.98, p * 1.02} ({98, 102} for p = 100)
\* and the flag to true; the flag never returns to false and no later tick
\* takes this transition again, also on a chart created anew.
C8_InitialRangeOnce ==
  [][/\ TickHandled /\ ~hasSetInitialRange =>
          /\ range' = Num([from |-> FMul(NewClose, Dec(98, 100)),
                           to |-> FMul(NewClose, Dec(102, 100))])
          /\ NewClose = F100 =>
               range' = Num([from |-> FromInt(98), to |-> FromInt(102)])
          /\ hasSetInitialRange'
          /\ transition' = "initial"
     /\ hasSetInitialRange => hasSetInitialRange'
     /\ TickHandled /\ hasSetInitialRange => transition' # "initial"
    ]_vars

\* A tick was handled by a re-created chart, which got no initial range.
C8_Witness ==
  /\ variant = FundamentalsApp
  /\ hasSetInitialRange
  /\ range = Null
  /\ color = UpColor
  /\ buffer[1] = F100

\* C9 as stated: every tick handled while hasSetInitialRange is true whose
\* price p is above to - size * 0.15 or below from + size * 0.15 moves the
\* range to {p - 0.75 * size, p + 0.75 * size}.
C9_ExpandNearEdge ==
  [][TickHandled /\ hasSetInitialRange /\ range # Null
       /\ (FGt(NewClose, BandHigh(Val(range))) \/ FLt(NewClose, BandLow(Val(range))))
     => range' = Num([from |-> FSub(NewClose, FMul(Dec(75, 100), RangeSize(Val(range)))),
                      to |-> FAdd(NewClose, FMul(Dec(75, 100), RangeSize(Val(range))))])
    ]_vars

\* C10: a tick handled while hasSetInitialRange is true whose price lies in
\* from + size * 0.15 .. to - size * 0.15 leaves the range as it was.
C10_SteadyInBand ==
  [][TickHandled /\ hasSetInitialRange /\ range # Null
       /\ FGe(NewClose, BandLow(Val(range))) /\ FLe(NewClose, BandHigh(Val(range)))
     => range' = range
    ]_vars

C10_Witness ==
  /\ variant = AutoScaleApp
  /\ transition = "steady"
  /\ range = Num([from |-> FromInt(98), to |-> FromInt(102)])
  /\ Len(buffer) = 2
  /\ buffer[2] = F100

\* C11 as stated: no tick makes to - from smaller than it was before the
\* tick, whatever the prices are.
C11_SizeNeverShrinks ==
  [][TickHandled /\ range # Null /\ range' # Null
     => FGe(RangeSize(Val(range')), RangeSize(Val(range)))
    ]_vars

\* C11: a tick handled while the range has a positive size of at least
\* 2^-48 of the magnitude of the tick's price does not make to - from
\* smaller, and a tick that moves such a range makes it larger.
C11_PositiveSizeNeverShrinks ==
  [][TickHandled /\ range # Null /\ range' # Null
       /\ FGt(RangeSize(Val(range)), F0)
       /\ FLe(FMul(Pow2(-48), FAbs(NewClose)), RangeSize(Val(range)))
     => /\ FGe(RangeSize(Val(range')), RangeSize(Val(range)))
        /\ range' # range => FGt(RangeSize(Val(range')), RangeSize(Val(range)))
    ]_vars

\* The range {98, 102} was moved by a tick near its top and is now of size 6.
C11_Witness ==
  /\ variant = AutoScaleApp
  /\ transition = "expand"
  /\ Len(buffer) = 2
  /\ buffer[1] = F100
  /\ buffer[2] = Dec(1019, 10)
  /\ range # Null
  /\ RangeSize(Val(range)) = FromInt(6)

\* C12: a tick of close c handled while the previous-close reference r is
\* defined turns the series to the up colour when c >= r, a tie included,
\* and to the down colour otherwise; while the reference is null the series
\* has its default colour before and after every tick; the range after the
\* tick is the one the flag, the old range and the close give, whatever
\* the reference is.
C12_ColourSignal ==
  [][TickHandled /\ variant # AutoScaleApp =>
       /\ prevCloseRef # Null /\ FLt(NewClose, Val(prevCloseRef)) => color' = "#D60A22"
       /\ prevCloseRef # Null /\ ~FLt(NewClose, Val(prevCloseRef)) => color' = "#00AA76"
       /\ prevCloseRef = Null => color = "#D60A22" /\ color' = "#D60A22"
       /\ range' = IF hasSetInitialRange THEN range ELSE Num(InitialRange(NewClose))
    ]_vars

\* A tick equal to the reference was handled and no render came after it.
C12_Witness ==
  /\ variant = StockChartApp
  /\ prevCloseRef = Num(F100)
  /\ buffer = <<Dec(985, 10), F100>>
  /\ Lag = 1
  /\ color = UpColor

\* C13: the cleanup closes the socket and removes the chart, for good; from
\* then on no message is handled: the messages still to come stay
\* undelivered, the buffer gets no tick, the series, its colour and the
\* range are left alone and the refresh trigger is not called.
C13_NoTickAfterTeardown ==
  [][~live =>
       /\ ~live'
       /\ ~TickHandled
       /\ UNCHANGED <<feed, buffer, hasSetInitialRange, range, color, transition,
                      refreshCounter, ticks>>
    ]_vars

\* The App was unmounted after a tick, with messages still to come.
C13_Witness ==
  /\ variant = StockChartApp
  /\ ~live
  /\ Len(buffer) = 1
  /\ Len(feed) = 1
  /\ refreshCounter = 1

\* C14: after the teardown a response to a stats request or to a prediction
\* request changes nothing of the chart, the socket, the App's state or the
\* badge's state, in whatever order teardown and responses come, and its
\* handler does not throw.
C14_LateResponseIgnored ==
  [][~live =>
       /\ UNCHANGED <<live, committed, chartVars, prevClose, prevCloseRef, refreshCounter,
                      stats, newest, panelVars, prediction, interval>>
       /\ last' # Null => ~Val(last').threw
    ]_vars

\* A response carrying stats was delivered after the App was unmounted.
C14_Witness ==
  /\ variant = StockChartApp
  /\ ~live
  /\ stats = Null
  /\ last # Null
  /\ Val(last).data # Null
  /\ Val(Val(last).data).stats # Null
  /\ pending # {}

\* The response handler of the stats panel has just run with a response
\* that has no stats field.
NoStatsHandled ==
  /\ variant \in Variants
  /\ last' # last
  /\ Val(last').data # Null
  /\ Val(Val(last').data).stats = Null

\* C15: when a stats response has no stats field the handler logs it and
\* does not throw, the panel's stats and the previous close (state and
\* reference) are as they were, and a panel that showed 'Loading' still
\* shows it.
C15_NoStatsFieldLogged ==
  [][NoStatsHandled =>
       /\ Val(last').logged
       /\ ~Val(last').threw
       /\ UNCHANGED <<stats, prevClose, prevCloseRef>>
       /\ stats = Null => stats' = Null
    ]_vars

\* The only response so far had no stats field: the panel is mounted and
\* still loading.
C15_Witness ==
  /\ variant = FundamentalsApp
  /\ live
  /\ last # Null
  /\ Val(last).data = Num([stats |-> Null])
  /\ Val(last).logged
  /\ pending = {}
  /\ stats = Null
  /\ prevClose = Null

\* The badge's fetch has just ended without a prediction: it failed, or its
\* response carries an error.
NoPredictionHandled ==
  /\ last' # last
  /\ \/ Val(last').data = Null
     \/ Val(Val(last').data).error # Null

\* C16: the badge sends one request when it mounts and sets its timer to 5
\* minutes; every other request is sent by a firing of the timer, one per
\* firing, at a multiple of 5 minutes, and sets the timer 5 minutes on; the
\* unmount clears the timer and no request is sent after it; a failed fetch
\* and a response with an error field leave the prediction as it was and
\* send no request.
C16_PollEveryFiveMinutes ==
  [][variant = BadgeOnly =>
       /\ Mounting /\ ~Mounting' => pending' = {0} /\ interval' = Num(5)
       /\ \A id \in pending' \ pending :
            /\ live
            /\ id = clock
            /\ (id % 5) = 0
            /\ pending' = pending \cup {id}
            /\ interval' = Num(id + 5)
       /\ interval # Null /\ interval' # Null /\ interval' # interval =>
            Cardinality(pending' \ pending) = 1
       /\ ~live' => interval' = Null
       /\ ~live => pending' \subseteq pending
       /\ NoPredictionHandled => prediction' = prediction /\ pending' \subseteq pending
    ]_vars

\* The request sent at the mount failed, the timer fired after 5 minutes
\* and its request is on its way.
C16_Witness ==
  /\ variant = BadgeOnly
  /\ live
  /\ clock = 5
  /\ interval = Num(10)
  /\ pending = {5}
  /\ prediction = Null
  /\ last # Null
  /\ Val(last).id = 0
  /\ Val(last).data = Null

\* What the polling component renders while it has no data.
Loading == IF variant = BadgeOnly THEN prediction = Null ELSE stats = Null

\* C17 as stated: once a polling request hangs, a panel that shows
\* 'Loading' shows it in every continuation.
C17_HungKeepsLoading ==
  [][variant # AutoScaleApp /\ hung # {} /\ Loading => Loading']_vars

\* C17: a request that hangs is never timed out: it stays outstanding for
\* good, and a panel that shows 'Loading' keeps showing it until the
\* response to another request, one that did not hang, brings stats or a
\* prediction while the panel is mounted.
C17_LoadingUntilAnotherResponse ==
  [][variant # AutoScaleApp =>
       /\ hung \subseteq hung'
       /\ hung' \subseteq pending'
       /\ Loading /\ ~Loading' =>
            /\ live
            /\ last' # last
            /\ Val(last').id \notin hung
            /\ Val(last').data # Null
    ]_vars

\* Every request of the session hangs: the ticks are over, the panel is
\* mounted and still loading.
C17_Witness ==
  /\ variant = StockChartApp
  /\ live
  /\ Settled
  /\ feed = <<>>
  /\ Len(buffer) = 2
  /\ Cardinality(pending) = 3
  /\ hung = pending
  /\ stats = Null

\* The response handler of a mounted stats panel has just run with a
\* response that carries stats.
StatsHandled ==
  /\ variant \in Variants
  /\ live
  /\ last' # last
  /\ Val(last').data # Null
  /\ Val(Val(last').data).stats # Null

\* C18: every response with a stats object handled by the mounted panel
\* sets the previous close, to the previousClose field when there is one
\* and to 0 when there is none, never to null; the next render hands it to
\* the tick handler, and while the handler's reference is 0 a tick is
\* coloured up when its close is >= 0 and down when it is below 0.
C18_MissingPreviousCloseIsZero ==
  [][/\ StatsHandled =>
          /\ prevClose' # Null
          /\ Val(Val(Val(last').data).stats).previousClose = Null => prevClose' = Num(F0)
          /\ Val(Val(Val(last').data).stats).previousClose # Null =>
               prevClose' = Val(Val(Val(last').data).stats).previousClose
     /\ variant \in {FundamentalsApp, StockChartApp} /\ committed' # committed =>
          prevCloseRef' = prevClose
     /\ TickHandled /\ prevCloseRef = Num(F0) =>
          color' = IF FGe(NewClose, F0) THEN UpColor ELSE DownColor
    ]_vars

\* The stats came without previousClose, the reference is 0 and a tick of
\* close 0 has just been coloured up.
C18_Witness ==
  /\ variant = StockChartApp
  /\ stats = Num([previousClose |-> Null])
  /\ prevClose = Num(F0)
  /\ prevCloseRef = Num(F0)
  /\ Len(buffer) = 2
  /\ buffer[1] = FNeg(F100)
  /\ buffer[2] = F0
  /\ Lag = 1
  /\ color = UpColor

\* A render of the App after its first has just been committed.
Rerendered ==
  /\ variant \in {FundamentalsApp, StockChartApp}
  /\ committed # Null
  /\ committed' # committed

\* A handled tick adds one to the refresh counter and neither sends nor
\* cancels a request.
TickBumpsCounter ==
  TickHandled /\ variant \in {FundamentalsApp, StockChartApp} =>
    refreshCounter' = refreshCounter + 1 /\ pending' = pending

\* A request stays outstanding until its own response or failure is handled.
NothingCancelled ==
  variant \in Variants =>
    \A id \in pending \ pending' : last' # last /\ Val(last').id = id

\* Whatever request it answers, a response with stats handled by the
\* mounted panel replaces stats and previous close, and nothing else
\* changes them.
LastResponseWins ==
  /\ StatsHandled =>
       /\ stats' = Val(last').data[1].stats
       /\ prevClose' = Num(PreviousCloseOf(Val(stats')))
  /\ variant \in Variants /\ <<stats, prevClose>>' # <<stats, prevClose>> => StatsHandled

\* C19 as stated: every handled tick adds one to the refresh counter and
\* starts one stats request of its own, so that a render starts as many
\* requests as ticks were handled since the render before; no request is
\* cancelled; the response with stats delivered last wins.
C19_OneRequestPerTick ==
  [][/\ TickBumpsCounter
     /\ Rerendered =>
          Cardinality(pending' \ pending) = refreshCounter - Val(committed).refreshCounter
     /\ NothingCancelled
     /\ LastResponseWins
    ]_vars

\* C19: every handled tick adds one to the refresh counter; every render
\* whose refresh counter differs from the one of the render before starts
\* one stats request, however many ticks were handled in between, and a
\* render with the same counter starts none; no request is cancelled; stats
\* and previous close hold the values of the response with stats delivered
\* last, also when it answers an older request than the one shown.
C19_OneRequestPerRender ==
  [][/\ TickBumpsCounter
     /\ Rerendered =>
          /\ pending \subseteq pending'
          /\ pending' \ pending =
               IF refreshCounter # Val(committed).refreshCounter THEN {refreshCounter} ELSE {}
     /\ NothingCancelled
     /\ LastResponseWins
    ]_vars

\* The response to the request sent at mount was handled after the
\* response to the request of the first tick and has replaced its values.
C19_Witness ==
  /\ variant = StockChartApp
  /\ live
  /\ newest = Num(1)
  /\ last # Null
  /\ Val(last).id = 0
  /\ Val(last).data = Num([stats |-> Num([previousClose |-> Null])])
  /\ stats = Num([previousClose |-> Null])
  /\ prevClose = Num(F0)
  /\ pending = {}

\* C20: when the handler re-centres and enlarges a range of positive size
\* for a tick of price p, p is neither above to - size * 0.15 nor below
\* from + size * 0.15 of the new range; and a tick with the price of the
\* tick before it, handled right after that tick moved the range to a
\* range whose size is not negative, leaves the range where it is.
C20_NoSecondExpansion ==
  [][/\ TickHandled /\ transition' = "expand" /\ FGt(RangeSize(Val(range)), F0) =>
          /\ ~FGt(NewClose, BandHigh(Val(range')))
          /\ ~FLt(NewClose, BandLow(Val(range')))
     /\ TickHandled /\ transition = "expand" /\ NewClose = buffer[Len(buffer)]
          /\ FGe(RangeSize(Val(range)), F0) =>
          /\ range' = range
          /\ transition' = "steady"
    ]_vars

\* 101.9 moved the range {98, 102} to one of size 6 around it, and 101.9
\* again left that range alone.
C20_Witness ==
  /\ variant = AutoScaleApp
  /\ buffer = <<F100, Dec(1019, 10), Dec(1019, 10)>>
  /\ transition = "steady"
  /\ range # Null
  /\ RangeSize(Val(range)) = FromInt(6)

=============================================================================
